---- MODULE Spec2Model ----
(***************************************************************************)
(* A model of VNULIB-Downloader's post-download code:                      *)
(*   - src/modules/create_pdf.py : CreatePDF (process pool fan-out that    *)
(*     merges each book file's images into one PDF),                       *)
(*   - src/utils/utils.py        : create_directory,                       *)
(*   - src/modules/update.py     : compareVersion.                         *)
(* The three parts share no state; each has a specification of its own     *)
(* (Spec / FairSpec, SpecDir, SpecVer) that holds the other parts still.   *)
(***************************************************************************)
EXTENDS Integers, Sequences, FiniteSets, TLC

VARIABLES links, fs, fs0, executor, run, disk, dcall, vcall

vars == <<links, fs, fs0, executor, run, disk, dcall, vcall>>

(***************************************************************************)
(* Bounds of the model.                                                    *)
(***************************************************************************)
MaxLinks == 2
MaxFairLinks == 1
MaxCalls == 2
Workers == 2
MaxParts == 3

(***************************************************************************)
(* Paths and directory entries.  A path is the sequence of its components; *)
(* a directory entry is a file name split into stem, page number and       *)
(* extension, so that endswith(".pdf") and the order of zero-padded names  *)
(* (page-001 < page-002 < ...) are computed, not assumed.                  *)
(***************************************************************************)
Root == <<"out">>

\* os.path.join(a, b) for a relative, non-empty component b.
Join(a, b) == a \o <<b>>

\* f"{name}.pdf" as a directory entry.
PdfEntry(name) == [stem |-> name, page |-> 0, ext |-> "pdf"]

\* A downloaded page image page-00k.jpg.
ImgEntry(k) == [stem |-> "page", page |-> k, ext |-> "jpg"]

\* file.endswith(".pdf")
EndsWithPdf(entry) == entry.ext = "pdf"

\* The downloaded pages of a directory: page-001.jpg, page-002.jpg.
Images == {ImgEntry(1), ImgEntry(2)}

(***************************************************************************)
(* The unit list: Link and LinkFile of user_options.py.                    *)
(***************************************************************************)
LinkFile(n) == [name |-> n]

Link(t, n, fnames) ==
    [original_type |-> t, name |-> n,
     files |-> [k \in 1..Len(fnames) |-> LinkFile(fnames[k])]]

\* A book's files carry distinct chapter names: the contract of the step
\* that resolves a link into its files.
BookFiles == {<<"ch1">>, <<"ch1", "ch2">>}

\* A link as _setup_links builds it, before it is resolved.
UnresolvedLink == Link("", "", <<"">>)

LinkUniverse ==
    {Link("book", "novel", f) : f \in BookFiles}
        \cup {Link("preview", "", <<"t1">>), Link("page", "", <<"t2">>), UnresolvedLink}

\* The lists create_pdf may be given.  The same book may be listed twice
\* (_setup_links keeps every link the user gives); the name of a preview or
\* page file is the time it was resolved at, so no two of them share one.
UnitLists ==
    {ls \in UNION {[1..n -> LinkUniverse] : n \in 0..MaxLinks} :
        \A a, b \in 1..Len(ls) :
            (a # b /\ ls[a].original_type \in {"preview", "page"}) => ls[a] # ls[b]}

\* The directory create_pdf addresses for file k of link l.
UnitDirectory(l, k) ==
    IF l.original_type = "book"
    THEN Join(Join(Root, l.name), l.files[k].name)
    ELSE Join(Root, l.files[k].name)

Dispatchable(l) == l.original_type \in {"book", "preview", "page"}

\* The files of link l that create_pdf hands to the pool.
DispatchedFiles(l) ==
    CASE l.original_type = "book" -> 1..Len(l.files)
      [] l.original_type \in {"preview", "page"} -> {1}
      [] OTHER -> {}

Dirs == UNION {{UnitDirectory(l, k) : k \in DispatchedFiles(l)} : l \in LinkUniverse}

Addressed(ls) ==
    UNION {{UnitDirectory(ls[i], k) : k \in DispatchedFiles(ls[i])} : i \in 1..Len(ls)}

(***************************************************************************)
(* The download directory tree.  Per directory: whether it exists, its     *)
(* entries, what the codec (img2pdf.convert) answers for its images, how   *)
(* often {name}.pdf was written.                                           *)
(***************************************************************************)
BaseName(d) == d[Len(d)]

MissingDir == [exists |-> FALSE, entries |-> {}, codec |-> "ok", writes |-> 0]

ImageDir(c) == [exists |-> TRUE, entries |-> Images, codec |-> c, writes |-> 0]

AssembledDir(d) ==
    [exists |-> TRUE, entries |-> Images \cup {PdfEntry(BaseName(d))}, codec |-> "ok",
     writes |-> 0]

\* "ok": convert returns the document; "reject": convert raises; "none":
\* convert returns None.
Codecs == {"ok", "reject", "none"}

DirStates(d) == {MissingDir, AssembledDir(d)} \cup {ImageDir(c) : c \in Codecs}

Trees(ls) ==
    {t \in [Dirs -> UNION {DirStates(d) : d \in Dirs}] :
        \A d \in Dirs : /\ t[d] \in DirStates(d)
                        /\ d \notin Addressed(ls) => t[d] = MissingDir}

\* The orders os.listdir may return a directory's entries in.
Listings(S) ==
    {s \in [1..Cardinality(S) -> S] : \A a, b \in 1..Cardinality(S) : a # b => s[a] # s[b]}

(***************************************************************************)
(* CreatePDF: the pool and its futures.                                    *)
(***************************************************************************)
Future(c, i, directory, name) ==
    [call |-> c, link |-> i, directory |-> directory, name |-> name,
     pc |-> "pending", list_files |-> <<>>, exc |-> "", events |-> <<>>]

Finished(f) == f.pc \in {"done", "failed"}

Running(f) == f.pc = "listed"

Tasks == 1..Len(executor.futures)

\* shutdown(wait=False): the caller does not wait for the futures.
DrainedNoWait == TRUE

\* executor.shutdown() with wait=True: blocked until every future is finished.
Drained == \A t \in Tasks : Finished(executor.futures[t])

\* CreatePDF.__init__
Init ==
    /\ links \in UnitLists
    /\ fs \in Trees(links)
    /\ fs0 = fs
    /\ executor = [shutdown |-> FALSE, futures |-> <<>>]
    /\ run = [pc |-> "idle", i |-> 1, j |-> 1, calls |-> 0, error |-> ""]
    /\ disk = <<>>
    /\ dcall = <<>>
    /\ vcall = <<>>

FairInit == Init /\ Len(links) <= MaxFairLinks

\* A caller invokes create_pdf().
Call ==
    /\ run.pc \in {"idle", "returned", "raised"}
    /\ run.calls < MaxCalls
    /\ run' = [pc |-> "dispatch", i |-> 1, j |-> 1, calls |-> run.calls + 1, error |-> ""]
    /\ UNCHANGED <<links, fs, fs0, executor, disk, dcall, vcall>>

\* self.executor.submit(CreatePDF.process, directory, name), followed by
\* the caller's move to (i2, j2); submit raises once the pool is shut down.
Submit(directory, name, i2, j2) ==
    IF executor.shutdown
    THEN /\ run' = [run EXCEPT !.pc = "raised", !.error = "RuntimeError"]
         /\ UNCHANGED executor
    ELSE /\ executor' = [executor EXCEPT
                !.futures = Append(@, Future(run.calls, run.i, directory, name))]
         /\ run' = [run EXCEPT !.i = i2, !.j = j2]

\* book_handler joining the file's name to the download directory instead
\* of the book's own directory.
BookHandlerFlat ==
    /\ run.pc = "dispatch"
    /\ run.i <= Len(links)
    /\ links[run.i].original_type = "book"
    /\ LET link == links[run.i]
           file == link.files[run.j]
           last == run.j = Len(link.files)
       IN Submit(Join(Root, file.name), file.name,
                 IF last THEN run.i + 1 ELSE run.i, IF last THEN 1 ELSE run.j + 1)
    /\ UNCHANGED <<links, fs, fs0, disk, dcall, vcall>>

\* case "book": book_handler, one iteration of its loop over link.files.
BookHandler ==
    /\ run.pc = "dispatch"
    /\ run.i <= Len(links)
    /\ links[run.i].original_type = "book"
    /\ LET link == links[run.i]
           book_directory == Join(Root, link.name)
           file == link.files[run.j]
           last == run.j = Len(link.files)
       IN Submit(Join(book_directory, file.name), file.name,
                 IF last THEN run.i + 1 ELSE run.i, IF last THEN 1 ELSE run.j + 1)
    /\ UNCHANGED <<links, fs, fs0, disk, dcall, vcall>>

\* case "preview" | "page"
SingleHandler ==
    /\ run.pc = "dispatch"
    /\ run.i <= Len(links)
    /\ links[run.i].original_type \in {"preview", "page"}
    /\ LET link == links[run.i]
       IN Submit(Join(Root, link.files[1].name), link.files[1].name, run.i + 1, 1)
    /\ UNCHANGED <<links, fs, fs0, disk, dcall, vcall>>

\* case _: pass
SkipLink ==
    /\ run.pc = "dispatch"
    /\ run.i <= Len(links)
    /\ ~Dispatchable(links[run.i])
    /\ run' = [run EXCEPT !.i = run.i + 1, !.j = 1]
    /\ UNCHANGED <<links, fs, fs0, executor, disk, dcall, vcall>>

\* self.executor.shutdown(): no new futures, then wait.
Shutdown ==
    /\ run.pc = "dispatch"
    /\ run.i > Len(links)
    /\ executor' = [executor EXCEPT !.shutdown = TRUE]
    /\ run' = [run EXCEPT !.pc = "shutdown"]
    /\ UNCHANGED <<links, fs, fs0, disk, dcall, vcall>>

\* create_pdf collecting its futures' results: a task's exception is raised
\* to the caller.
ReturnReraising ==
    /\ run.pc = "shutdown"
    /\ Drained
    /\ IF \E t \in Tasks : executor.futures[t].exc # ""
       THEN \E t \in Tasks :
              /\ executor.futures[t].exc # ""
              /\ run' = [run EXCEPT !.pc = "raised", !.error = executor.futures[t].exc]
       ELSE run' = [run EXCEPT !.pc = "returned"]
    /\ UNCHANGED <<links, fs, fs0, executor, disk, dcall, vcall>>

\* shutdown() returns, and with it create_pdf().
Return ==
    /\ run.pc = "shutdown"
    /\ Drained
    /\ run' = [run EXCEPT !.pc = "returned"]
    /\ UNCHANGED <<links, fs, fs0, executor, disk, dcall, vcall>>

(***************************************************************************)
(* CreatePDF.process, run by a pool worker.                                *)
(***************************************************************************)
SetFuture(t, f) == executor' = [executor EXCEPT !.futures[t] = f]

\* process without its check for an existing .pdf.
ListdirNoGuard(t) ==
    LET f == [executor.futures[t] EXCEPT !.events = Append(@, "Creating")]
        dir == fs[f.directory]
    IN /\ executor.futures[t].pc = "pending"
       /\ \A u \in 1..(t - 1) : executor.futures[u].pc # "pending"
       /\ Cardinality({u \in Tasks : Running(executor.futures[u])}) < Workers
       /\ IF ~dir.exists
          THEN SetFuture(t, [f EXCEPT !.pc = "failed", !.exc = "FileNotFoundError"])
          ELSE \E list_files \in Listings(dir.entries) :
                  SetFuture(t, [f EXCEPT !.pc = "listed", !.list_files = list_files])
       /\ UNCHANGED <<links, fs, fs0, run, disk, dcall, vcall>>

\* A free worker takes the oldest pending work item and runs process up to
\* its read of the directory: 'Creating PDF: ...' is logged, os.listdir
\* lists the directory, and an existing .pdf ends the task.
Listdir(t) ==
    LET f == [executor.futures[t] EXCEPT !.events = Append(@, "Creating")]
        dir == fs[f.directory]
    IN /\ executor.futures[t].pc = "pending"
       /\ \A u \in 1..(t - 1) : executor.futures[u].pc # "pending"
       /\ Cardinality({u \in Tasks : Running(executor.futures[u])}) < Workers
       /\ IF ~dir.exists
          THEN SetFuture(t, [f EXCEPT !.pc = "failed", !.exc = "FileNotFoundError"])
          ELSE \E list_files \in Listings(dir.entries) :
                  IF \E k \in 1..Len(list_files) : EndsWithPdf(list_files[k])
                  THEN SetFuture(t, [f EXCEPT !.pc = "done"])
                  ELSE SetFuture(t, [f EXCEPT !.pc = "listed", !.list_files = list_files])
       /\ UNCHANGED <<links, fs, fs0, run, disk, dcall, vcall>>

\* The rest of process: img2pdf.convert(list_files), and for a document
\* open(pdf_file_name, "wb"), f.write(pdf_file) and 'Created PDF: ...'.
Convert(t) ==
    LET f == executor.futures[t]
        dir == fs[f.directory]
    IN /\ f.pc = "listed"
       /\ CASE dir.codec = "reject" ->
                 /\ SetFuture(t, [f EXCEPT !.pc = "failed", !.exc = "ImageOpenError", !.list_files = <<>>])
                 /\ UNCHANGED fs
            [] dir.codec = "none" ->
                 /\ SetFuture(t, [f EXCEPT !.pc = "done", !.list_files = <<>>])
                 /\ UNCHANGED fs
            [] OTHER ->
                 /\ fs' = [fs EXCEPT ![f.directory] =
                              [@ EXCEPT !.entries = @ \cup {PdfEntry(f.name)},
                                        !.writes = @ + 1]]
                 /\ SetFuture(t, [f EXCEPT !.pc = "done", !.list_files = <<>>,
                                           !.events = Append(@, "Created")])
       /\ UNCHANGED <<links, fs0, run, disk, dcall, vcall>>

ListdirTask == \E t \in Tasks : Listdir(t)

ConvertTask == \E t \in Tasks : Convert(t)

Process == ListdirTask \/ ConvertTask

CreatePdf == BookHandler \/ SingleHandler \/ SkipLink \/ Shutdown \/ Return

Next ==
    \/ Call
    \/ BookHandler
    \/ SingleHandler
    \/ SkipLink
    \/ Shutdown
    \/ Return
    \/ ListdirTask
    \/ ConvertTask

Spec == Init /\ [][Next]_vars

\* Every started task runs to its end and the caller's thread keeps running;
\* whether create_pdf is called at all is up to the caller.
FairSpec == FairInit /\ [][Next]_vars /\ WF_vars(Process) /\ WF_vars(CreatePdf)

(***************************************************************************)
(* utils.create_directory and utils.remove_directory over a small disk.    *)
(* A path is absent, a directory, or a directory rmtree may not remove.    *)
(***************************************************************************)
DiskPaths == {"downloads", "logs", "images"}

DiskStates == {"absent", "dir", "locked"}

Forces == {"True", "False", "None"}

NoPdfRun ==
    /\ links = <<>>
    /\ fs = [d \in Dirs |-> MissingDir]
    /\ fs0 = fs
    /\ executor = [shutdown |-> FALSE, futures |-> <<>>]
    /\ run = [pc |-> "idle", i |-> 1, j |-> 1, calls |-> 0, error |-> ""]

InitDir ==
    /\ NoPdfRun
    /\ disk \in [DiskPaths -> DiskStates]
    /\ dcall = [fn |-> "", directory |-> "", force |-> "None", before |-> "absent", result |-> ""]
    /\ vcall = <<>>

\* The outcome of create_directory(directory, force) on a path in state
\* `before`, the user answering the prompt with yes or no: <<result, state after>>.
CreateDirectoryOutcome(before, force, yes) ==
    IF before # "absent"
    THEN IF force = "False"
         THEN <<"FileExistsError", before>>
         ELSE IF force = "True" \/ yes
              THEN IF before = "locked"
                   THEN <<"PermissionError", before>>
                   ELSE <<"True", "dir">>
              ELSE <<"False", before>>
    ELSE <<"True", "dir">>

CreateDirectory ==
    \E directory \in DiskPaths, force \in Forces, yes \in BOOLEAN :
        LET out == CreateDirectoryOutcome(disk[directory], force, yes)
        IN /\ disk' = [disk EXCEPT ![directory] = out[2]]
           /\ dcall' = [fn |-> "create_directory", directory |-> directory, force |-> force,
                        before |-> disk[directory], result |-> out[1]]
           /\ UNCHANGED <<links, fs, fs0, executor, run, vcall>>

RemoveDirectory ==
    \E directory \in DiskPaths :
        LET before == disk[directory]
            result == CASE before = "absent" -> "False"
                        [] before = "locked" -> "PermissionError"
                        [] OTHER -> "True"
        IN /\ disk' = [disk EXCEPT ![directory] = IF before = "dir" THEN "absent" ELSE before]
           /\ dcall' = [fn |-> "remove_directory", directory |-> directory, force |-> "None",
                        before |-> before, result |-> result]
           /\ UNCHANGED <<links, fs, fs0, executor, run, vcall>>

NextDir == CreateDirectory \/ RemoveDirectory

SpecDir == InitDir /\ [][NextDir]_vars

(***************************************************************************)
(* update.compareVersion.  A version string is the sequence of its         *)
(* characters.                                                             *)
(***************************************************************************)
Digits == <<"0", "1", "2", "3", "4", "5", "6", "7", "8", "9">>

RECURSIVE ToStr(_)
\* str(n) for n >= 0
ToStr(n) == IF n < 10 THEN <<Digits[n + 1]>> ELSE ToStr(n \div 10) \o <<Digits[(n % 10) + 1]>>

RECURSIVE Dotted(_)
\* ".".join(str(c) for c in parts)
Dotted(parts) ==
    IF Len(parts) = 1 THEN ToStr(parts[1])
    ELSE ToStr(parts[1]) \o <<".">> \o Dotted(Tail(parts))

RECURSIVE SplitDots(_, _)
\* s.split('.'), cur being the piece read so far
SplitDots(s, cur) ==
    IF s = <<>> THEN <<cur>>
    ELSE IF Head(s) = "." THEN <<cur>> \o SplitDots(Tail(s), <<>>)
    ELSE SplitDots(Tail(s), Append(cur, Head(s)))

Split(s) == SplitDots(s, <<>>)

RECURSIVE ParseInt(_, _)
\* int(s) for a string of decimal digits, acc being the value read so far
ParseInt(s, acc) ==
    IF s = <<>> THEN acc
    ELSE ParseInt(Tail(s), 10 * acc + (CHOOSE d \in 0..9 : Digits[d + 1] = Head(s)))

IntOf(s) == ParseInt(s, 0)

Components == {0, 1, 10}

VersionParts == UNION {[1..n -> Components] : n \in 1..MaxParts}

Versions == {Dotted(p) : p \in VersionParts}

InitVer ==
    /\ NoPdfRun
    /\ disk = <<>>
    /\ dcall = <<>>
    /\ vcall \in {[version |-> v, to_compare_version |-> w, i |-> 0, status |-> "running", value |-> 0] :
                    v \in Versions, w \in Versions}

\* One iteration of compareVersion's loop `for i in range(len(version))`,
\* or its `return 0` after the last one.
CompareVersion ==
    LET extracted_version == Split(vcall.version)
        extracted_to_compare_version == Split(vcall.to_compare_version)
        i == vcall.i
    IN /\ vcall.status = "running"
       /\ vcall' =
            IF i >= Len(vcall.version)
            THEN [vcall EXCEPT !.status = "returned", !.value = 0]
            ELSE IF i + 1 > Len(extracted_version) \/ i + 1 > Len(extracted_to_compare_version)
            THEN [vcall EXCEPT !.status = "IndexError"]
            ELSE IF IntOf(extracted_version[i + 1]) > IntOf(extracted_to_compare_version[i + 1])
            THEN [vcall EXCEPT !.status = "returned", !.value = 1]
            ELSE IF IntOf(extracted_version[i + 1]) < IntOf(extracted_to_compare_version[i + 1])
            THEN [vcall EXCEPT !.status = "returned", !.value = -1]
            ELSE [vcall EXCEPT !.i = i + 1]
       /\ UNCHANGED <<links, fs, fs0, executor, run, disk, dcall>>

NextVer == CompareVersion

SpecVer == InitVer /\ [][NextVer]_vars

(***************************************************************************)
(* Properties of CreatePDF (checked under Spec, C2 under FairSpec).        *)
(***************************************************************************)
\* The <<directory, name>> pairs create_pdf call c submitted for link i, in
\* the order of submission.
SubmittedFor(c, i) ==
    LET mine == SelectSeq(executor.futures, LAMBDA f : f.call = c /\ f.link = i)
    IN [k \in 1..Len(mine) |-> <<mine[k].directory, mine[k].name>>]

\* create_pdf is through with link i of the list.
Dispatched(i) ==
    \/ run.pc \in {"shutdown", "returned"}
    \/ run.pc = "dispatch" /\ i < run.i

\* C1: when create_pdf is through with a link, the tasks it submitted for
\* it are: for a book with N files, N tasks at the N distinct directories
\* out/<link.name>/<file.name>, each named file.name; for a preview or
\* page link, one task at out/<files[0].name>; for any other link, none.  A
\* list of such other links only leaves the directory tree as it was.
C1_FanOut ==
    /\ \A i \in 1..Len(links) :
         Dispatched(i) =>
            LET link == links[i]
                got == SubmittedFor(run.calls, i)
            IN CASE link.original_type = "book" ->
                      /\ Len(got) = Len(link.files)
                      /\ \A k \in 1..Len(got) :
                            got[k] = << <<"out", link.name, link.files[k].name>>, link.files[k].name >>
                      /\ Cardinality({got[k][1] : k \in 1..Len(got)}) = Len(link.files)
                 [] link.original_type \in {"preview", "page"} ->
                      got = << << <<"out", link.files[1].name>>, link.files[1].name >> >>
                 [] OTHER ->
                      /\ got = <<>>
                      /\ \A t \in Tasks : executor.futures[t].link # i
    /\ (\A i \in 1..Len(links) : links[i].original_type \notin {"book", "preview", "page"}) => fs = fs0

\* C1 witness: create_pdf has returned from a list of a two-file book and a
\* preview link, three tasks submitted.
C1_Witness ==
    /\ run.pc = "returned"
    /\ Len(links) = 2
    /\ links[1].original_type = "book" /\ Len(links[1].files) = 2
    /\ links[2].original_type = "preview"
    /\ Len(executor.futures) = 3

\* C2: create_pdf has returned only when every future of the pool is
\* finished, and a create_pdf that has submitted a task returns in the end.
C2_Drain ==
    /\ [](run.pc = "returned" => \A t \in Tasks : executor.futures[t].pc \in {"done", "failed"})
    /\ ((run.pc = "dispatch" /\ \E t \in Tasks : executor.futures[t].call = run.calls)
            ~> (run.pc = "returned"))

\* C2 witness: create_pdf has returned with two tasks submitted, one of
\* which wrote its document.
C2_Witness ==
    /\ run.pc = "returned"
    /\ Len(executor.futures) = 2
    /\ \E t \in Tasks : executor.futures[t].events = <<"Creating", "Created">>

TaskErrors == {"FileNotFoundError", "ImageOpenError"}

\* C3: no task's error reaches the caller of create_pdf, the first
\* create_pdf of an instance does not raise, and once create_pdf has
\* returned, every dispatched file whose directory held valid images and no
\* document has its document, whatever became of the other tasks.
C3_Isolation ==
    /\ run.error \notin TaskErrors
    /\ run.calls = 1 => run.pc # "raised"
    /\ run.pc = "returned" =>
          \A i \in 1..Len(links) : \A k \in DispatchedFiles(links[i]) :
              LET d == UnitDirectory(links[i], k)
              IN fs0[d] = ImageDir("ok") =>
                    /\ PdfEntry(links[i].files[k].name) \in fs[d].entries
                    /\ fs[d].writes >= 1

\* C3 witness: create_pdf has returned, one task failed on a missing
\* directory, one on rejected images, and a third wrote its document.
C3_Witness ==
    /\ run.pc = "returned"
    /\ \E t \in Tasks : executor.futures[t].exc = "FileNotFoundError"
    /\ \E t \in Tasks : executor.futures[t].exc = "ImageOpenError"
    /\ \E t \in Tasks : /\ executor.futures[t].events = <<"Creating", "Created">>
                        /\ fs[executor.futures[t].directory].writes = 1

PdfEntries(d) == {e \in fs[d].entries : e.ext = "pdf"}

\* C4: a task that begins on a directory which already holds a document
\* ends at once without an error, logs nothing more than its start, writes
\* nothing and leaves the tree as it is, one document in the directory.
C4_Idempotent ==
    [][\A t \in Tasks :
          LET f == executor.futures[t]
              g == executor'.futures[t]
          IN (f.pc = "pending" /\ g # f /\ (\E e \in fs[f.directory].entries : e.ext = "pdf")) =>
                /\ g.pc = "done"
                /\ g.exc = ""
                /\ g.events = <<"Creating">>
                /\ fs' = fs
                /\ Cardinality({e \in fs'[f.directory].entries : e.ext = "pdf"}) = 1]_vars

\* C4 witness: on a directory that held no document, one task has written
\* it and a second task, run after it, has ended without error or write.
C4_Witness ==
    \E t, u \in Tasks :
        LET f == executor.futures[t]
            g == executor.futures[u]
        IN /\ t # u
           /\ f.directory = g.directory
           /\ fs0[f.directory] = ImageDir("ok")
           /\ f.pc = "done" /\ f.events = <<"Creating", "Created">>
           /\ g.pc = "done" /\ g.events = <<"Creating">> /\ g.exc = ""
           /\ fs[f.directory].writes = 1
           /\ Cardinality(PdfEntries(f.directory)) = 1

\* C5: of the tasks that target one directory at most one writes the
\* document: no document is written twice.
C5_SingleWrite == \A d \in Dirs : fs[d].writes <= 1

Ascending(s) == \A a, b \in 1..Len(s) : a < b => s[a].page < s[b].page

\* C6: the files a task hands to the merge are in the ascending order of
\* their names, whatever order the listing gave.
C6_OrderPreserved ==
    \A t \in Tasks : executor.futures[t].pc = "listed" => Ascending(executor.futures[t].list_files)

\* C7: a finished task has logged its start first and at most one more
\* event: 'completed' only with its document written, and
\* 'DirectoryMissing' when its directory does not exist.
C7_LoggingProtocol ==
    \A t \in Tasks :
        LET f == executor.futures[t]
        IN f.pc \in {"done", "failed"} =>
              /\ Len(f.events) \in {1, 2} /\ f.events[1] = "Creating"
              /\ f.events = <<"Creating", "Created">> => PdfEntry(f.name) \in fs[f.directory].entries
              /\ ~fs[f.directory].exists => f.events = <<"Creating", "DirectoryMissing">>

\* C8: a create_pdf invoked after an earlier one has returned does not
\* raise.
C8_RepeatedRun == run.calls >= 2 => run.pc # "raised"

(***************************************************************************)
(* Properties of create_directory (SpecDir) and compareVersion (SpecVer).  *)
(***************************************************************************)
\* C9: create_directory raises nothing but PermissionError, returns True
\* exactly when it created the directory and False when the directory was
\* there and stayed; on an existing directory with force False it returns
\* a boolean and the directory stays.
C9_CreateDirectory ==
    dcall.fn = "create_directory" =>
        /\ dcall.result \in {"True", "False", "PermissionError"}
        /\ dcall.result = "True" => disk[dcall.directory] = "dir"
        /\ dcall.result = "False" => dcall.before # "absent" /\ disk[dcall.directory] = dcall.before
        /\ (dcall.before # "absent" /\ dcall.force = "False") =>
              /\ dcall.result \in {"True", "False"}
              /\ disk[dcall.directory] # "absent"

RECURSIVE Compare(_, _)
\* Component-wise numeric comparison of two equally long lists of numbers.
Compare(p, q) ==
    IF p = <<>> THEN 0
    ELSE IF Head(p) > Head(q) THEN 1
    ELSE IF Head(p) < Head(q) THEN -1
    ELSE Compare(Tail(p), Tail(q))

NumbersOf(s) == [k \in 1..Len(Split(s)) |-> IntOf(Split(s)[k])]

\* C10: for two versions of the same number of components compareVersion
\* returns 1, -1 or 0 as the first is greater, smaller or equal.
C10_CompareVersion ==
    (vcall.status # "running" /\ Len(Split(vcall.version)) = Len(Split(vcall.to_compare_version))) =>
        /\ vcall.status = "returned"
        /\ vcall.value = Compare(NumbersOf(vcall.version), NumbersOf(vcall.to_compare_version))
====
